---- MODULE Spec2Model ----
(***************************************************************************)
(* The buffered SQLite store of app/helpers/sqlite.py (class SQLite and    *)
(* its logging adapter SQLiteHandler) and the configuration change         *)
(* detector Config.sync of app/helpers/configs.py.                         *)
(*                                                                         *)
(* Three callers run flushB(): the periodic task listen() and the store's  *)
(* close() (both through flush(), which holds the asyncio lock) and the    *)
(* adapter's SQLiteHandler.close() (which calls flushB() directly).        *)
(* flushB() is modelled statement by statement, so that producers, which   *)
(* call insert()/update() from any thread that logs, and the other callers *)
(* interleave with it.                                                     *)
(*                                                                         *)
(* The SQLAlchemy session is modelled by what it does to the program:      *)
(* session.add() attaches an object to one session at a time, a query sees *)
(* the committed table overlaid with the session's own pending changes     *)
(* (autoflush), commit() installs the pending changes atomically and fails *)
(* on a violated UNIQUE index, rollback() discards them.                   *)
(*                                                                         *)
(* FileSync.run of app/filesync/service.py, the dispatch of the command    *)
(* line's flags, is modelled beside the store by the variable fs.          *)
(***************************************************************************)
EXTENDS Integers, Sequences, FiniteSets, TLC

\* ------------------------------------------------------------------ bounds
MaxOps == 3      \* records enqueued plus Config.sync calls in one run
MaxFaults == 1   \* failures of a database operation in one run
MaxClock == 2    \* days that pass in one run

\* ------------------------------------------------------- finite input sets
Flushers   == {"listen", "close", "handler"}
ConfigKey  == "config-sha256"
Keys       == {ConfigKey, "foo"}
Digests    == {"d1", "d2"}
Messages   == {"a"}
Sinks      == {"off", "INFO", "DEBUG"}
\* the configuration file: well-formed YAML with the bytes, bytes that are not
\* YAML, a file that cannot be read, no file
NoFile     == [kind |-> "missing", bytes |-> "none"]
Files      == {[kind |-> k, bytes |-> d] : k \in {"ok", "malformed"}, d \in Digests}
                  \cup {[kind |-> "unreadable", bytes |-> "none"], NoFile}
None       == <<>>
Retentions == {0, 1}
BadParts   == {"created", "levelname", "message"}
LevelNames == {"DEBUG", "INFO", "WARNING", "ERROR"}
\* logging calls of the application: the calling module and its message
Calls      == {[module |-> "main", text |-> "a"], [module |-> "service", text |-> "b"]}
DefaultRetention == 7
\* FileSync: the --target option (none, a configured host, an unknown host),
\* the hosts of configs.targets, the hosts that refuse the credentials
Selected   == {"", "h1", "h3"}
Configured == {<<>>, <<"h1">>, <<"h2", "h1">>}
BadAuth    == {{}, {"h1"}, {"h2"}}

VARIABLES
    inserts,    \* SQLite.inserts: the pending-insert deque
    updates,    \* SQLite.updates: the pending-update deque
    logs,       \* committed rows of table logs, in id order
    settings,   \* committed rows of table settings, in id order
    running,    \* SQLite.running
    lock,       \* SQLite.lock: its holder, or "none"
    engine,     \* the engine's connection pool: "open" or "disposed"
    sink,       \* logging set-up: SQLiteHandler not attached, or the root level
    pc,         \* per caller of flushB: the statement it is at
    snapI,      \* per caller: local list `inserts` of flushB
    snapU,      \* per caller: local list `updates` of flushB
    staged,     \* per caller: pending Setting changes of its session
    owner,      \* per Log object: the session it is attached to, or "none"
    outcome,    \* per caller: how its last flushB ended
    faults,     \* I/O failures of the database so far
    nextUid,    \* identity of the next Log object
    nextUpd,    \* identity of the next queued update
    nSync,      \* calls of Config.sync so far
    syncPc,     \* Config.sync: "idle", or "commit" (before session.commit())
    syncStaged, \* Config.sync: the pending change of its session
    syncFile,   \* Config.sync: the configuration file as its last call found it
    syncRet,    \* Config.sync: what its last call returned
    clock,      \* the wall clock, in days
    retention,  \* SQLite.retention, in days
    purgePc,    \* SQLite.purge: "idle", or "delete" (after the count query)
    threshold,  \* SQLite.purge: local threshold
    raised,     \* the operations that have raised an exception to their caller
    badEvents,  \* log events handed to emit() that it could not make a row of
    event,      \* the log event last handed to SQLiteHandler.emit by a caller
    fs          \* FileSync.run: its arguments, locals and position, what it did

vars == <<inserts, updates, logs, settings, running, lock, engine, sink, fs, pc,
          snapI, snapU, staged, owner, outcome, faults,
          nextUid, nextUpd, nSync, syncPc, syncStaged, syncFile, syncRet,
          clock, retention, purgePc, threshold, raised, badEvents, event>>

queueVars == <<inserts, updates, nextUid, nextUpd>>
storeVars == <<logs, settings>>
syncVars  == <<nSync, syncPc, syncStaged, syncFile, syncRet>>
flushLocals == <<snapI, snapU, staged, owner, outcome>>
purgeVars == <<clock, retention, purgePc, threshold, raised>>

\* --------------------------------------------------------------- helpers
Range(s) == {s[i] : i \in 1..Len(s)}

Uids(s) == {s[i].uid : i \in 1..Len(s)}

MaxId(tbl) == IF tbl = <<>> THEN 0 ELSE tbl[Len(tbl)].id

HasKey(tbl, k) == \E i \in 1..Len(tbl) : tbl[i].key = k

RowOf(tbl, k) == tbl[CHOOSE i \in 1..Len(tbl) : tbl[i].key = k]

\* statements of flushB between its entry and its return
FlushPcs == {"snap", "add", "parse", "commit", "ckpt", "except", "finally"}

InFlush(f) == pc[f] \in FlushPcs

\* the run may take one more record, Config.sync call or malformed log event
Room == (nextUid - 1) + (nextUpd - 1) + nSync + badEvents < MaxOps


\* --------------------------------------------------- logging into the sink
\* setup_logging: a record of level lvl reaches SQLiteHandler.emit
SinkTakes(lvl) == sink # "off" /\ (lvl = "DEBUG" => sink = "DEBUG")

\* a deque that takes new elements at its head
appendleft(q, data) == <<data>> \o q

\* SQLite.insert / SQLite.update: deque.append
insert(q, data) == Append(q, data)

update(q, data) == Append(q, data)

\* str.lower() of a level name
Lower(name) ==
    CASE name = "DEBUG" -> "debug"
      [] name = "INFO" -> "info"
      [] name = "WARNING" -> "warning"
      [] name = "ERROR" -> "error"

\* SQLiteHandler.emit: the Log row built from a logging event
emit(uid, ev) ==
    [uid |-> uid, module |-> ev.module, key |-> Lower(ev.levelname),
     value |-> ev.text, created_on |-> ev.created, updated_on |-> ev.created]

\* no log event yet; bad names the part of an event that cannot be read
NoEvent ==
    [module |-> "none", levelname |-> "INFO", text |-> "none", created |-> 0,
     bad |-> "none"]

\* the LogRecord that a logging call of the store makes: created now
Event(lvl, msg) ==
    [module |-> "sqlite", levelname |-> lvl, text |-> msg, created |-> clock,
     bad |-> "none"]

\* emit, lines 188-196: build the Log row of ev and hand it to SQLite.insert
Enqueue(ev) ==
    /\ inserts' = insert(inserts, emit(nextUid, ev))
    /\ nextUid' = nextUid + 1

\* logging.<lvl>(msg): the root logger hands the record to the sink
Logged(lvl, msg) ==
    IF SinkTakes(lvl)
    THEN /\ Room
         /\ event' = Event(lvl, msg)
         /\ Enqueue(event')
    ELSE UNCHANGED <<inserts, nextUid, event>>

\* ---------------------------------------------------------------- FileSync
\* FileSync.run has not been called
NoRun ==
    [pc |-> "idle",
     args |-> [download |-> FALSE, check |-> FALSE, target |-> "", list |-> FALSE,
               generate |-> FALSE, reset |-> FALSE],
     targets |-> <<>>, bad |-> {}, download |-> FALSE, check |-> FALSE,
     found |-> FALSE, ran |-> <<>>, said |-> FALSE]

\* lines 27 and 85: a host is skipped if a target is selected and it is not it
Skipped(target, host) == target # "" /\ target # host

\* a download that reports a host whose authentication failed as not found
RECURSIVE downloadAuthUnfound(_, _, _, _)
downloadAuthUnfound(target, hosts, bad, found) ==
    IF hosts = <<>> THEN found
    ELSE IF Skipped(target, Head(hosts))
         THEN downloadAuthUnfound(target, Tail(hosts), bad, found)
         ELSE IF Head(hosts) \in bad THEN FALSE
              ELSE downloadAuthUnfound(target, Tail(hosts), bad, TRUE)

\* FileSync.download: for each host that is not skipped found = True, then the
\* copy; AuthenticationException returns found at once, any other exception
\* is logged and the loop goes on
RECURSIVE download(_, _, _, _)
download(target, hosts, bad, found) ==
    IF hosts = <<>> THEN found
    ELSE IF Skipped(target, Head(hosts))
         THEN download(target, Tail(hosts), bad, found)
         ELSE IF Head(hosts) \in bad THEN TRUE
              ELSE download(target, Tail(hosts), bad, TRUE)

\* FileSync.check: for each host that is not skipped found = True, then the
\* comparison of its projects
RECURSIVE check(_, _, _)
check(target, hosts, found) ==
    IF hosts = <<>> THEN found
    ELSE IF Skipped(target, Head(hosts))
         THEN check(target, Tail(hosts), found)
         ELSE check(target, Tail(hosts), TRUE)

\* ------------------------------------------------------------- the session
\* a settings table without the UNIQUE index: every pending row is accepted
UniqueOff(tbl, st) == TRUE

\* Setting.key is UNIQUE: a pending new row whose key is committed is refused
UniqueOK(tbl, st) == \A i \in 1..Len(st) : st[i].new => ~HasKey(tbl, st[i].key)

\* a parse that keeps the first value pending for a key
parseFirstWins(st, tbl, data) ==
    IF \E i \in 1..Len(st) : st[i].key = data.key
    THEN st
    ELSE Append(st, [key |-> data.key, value |-> data.value,
                     new |-> ~HasKey(tbl, data.key),
                     created_on |-> clock, updated_on |-> clock])

\* SQLite.parse: look the key up (pending changes of the session first, then
\* the table), create the row if there is none, set its value and updated_on
parse(st, tbl, data) ==
    IF \E i \in 1..Len(st) : st[i].key = data.key
    THEN LET i == CHOOSE j \in 1..Len(st) : st[j].key = data.key
         IN  [st EXCEPT ![i].value = data.value, ![i].updated_on = clock]
    ELSE Append(st, [key |-> data.key, value |-> data.value,
                     new |-> ~HasKey(tbl, data.key),
                     created_on |-> clock, updated_on |-> clock])

\* the pending value of key k in st
StagedFor(st, k) == st[CHOOSE i \in 1..Len(st) : st[i].key = k]

IsStaged(st, k) == \E i \in 1..Len(st) : st[i].key = k

\* a commit that writes the rows found and leaves the new rows out
CommitSettingsFound(tbl, st) ==
    [i \in 1..Len(tbl) |->
        IF IsStaged(st, tbl[i].key)
        THEN [tbl[i] EXCEPT !.value = StagedFor(st, tbl[i].key).value,
                            !.updated_on = StagedFor(st, tbl[i].key).updated_on]
        ELSE tbl[i]]

\* a commit that replaces the rows found: DELETE, then INSERT with a new id
CommitSettingsReplace(tbl, st) ==
    SelectSeq(tbl, LAMBDA r : ~IsStaged(st, r.key)) \o
        [i \in 1..Len(st) |->
            [id |-> MaxId(tbl) + i, key |-> st[i].key, value |-> st[i].value,
             created_on |-> st[i].created_on, updated_on |-> st[i].updated_on]]

\* commit of the Setting changes: UPDATE of the rows found, INSERT of the new
CommitSettings(tbl, st) ==
    LET upd == [i \in 1..Len(tbl) |->
                   IF IsStaged(st, tbl[i].key)
                   THEN [tbl[i] EXCEPT !.value = StagedFor(st, tbl[i].key).value,
                                       !.updated_on = StagedFor(st, tbl[i].key).updated_on]
                   ELSE tbl[i]]
        fresh == SelectSeq(st, LAMBDA s : s.new)
    IN  upd \o [i \in 1..Len(fresh) |->
                   [id |-> MaxId(tbl) + i, key |-> fresh[i].key,
                    value |-> fresh[i].value, created_on |-> fresh[i].created_on,
                    updated_on |-> fresh[i].updated_on]]

\* a commit that writes one row for equal Log objects
CommitLogsMerged(tbl, objs) ==
    LET once == SelectSeq([i \in 1..Len(objs) |-> [at |-> i, obj |-> objs[i]]],
                          LAMBDA e : \A j \in 1..(e.at - 1) :
                                        \/ objs[j].key # e.obj.key
                                        \/ objs[j].value # e.obj.value)
    IN  tbl \o [i \in 1..Len(once) |->
                   [id |-> MaxId(tbl) + i, uid |-> once[i].obj.uid,
                    module |-> once[i].obj.module,
                    key |-> once[i].obj.key, value |-> once[i].obj.value,
                    created_on |-> once[i].obj.created_on,
                    updated_on |-> once[i].obj.updated_on]]

\* a commit that also stamps the rows the table has with the time of the flush
CommitLogsTouch(tbl, objs) ==
    [i \in 1..Len(tbl) |-> [tbl[i] EXCEPT !.updated_on = clock]] \o
        [i \in 1..Len(objs) |->
            [id |-> MaxId(tbl) + i, uid |-> objs[i].uid,
             module |-> objs[i].module,
             key |-> objs[i].key, value |-> objs[i].value,
             created_on |-> objs[i].created_on, updated_on |-> objs[i].updated_on]]

\* commit of the Log objects pending in the session: INSERT in the order added
CommitLogs(tbl, objs) ==
    tbl \o [i \in 1..Len(objs) |->
               [id |-> MaxId(tbl) + i, uid |-> objs[i].uid,
                module |-> objs[i].module,
                key |-> objs[i].key, value |-> objs[i].value,
                created_on |-> objs[i].created_on, updated_on |-> objs[i].updated_on]]

\* the Log objects of f's snapshot that are pending (not yet rows) in its session
Pending(f) == SelectSeq(snapI[f], LAMBDA r : owner[r.uid] = f /\ r.uid \notin Uids(logs))

\* ------------------------------------------------------------------- Init
InitStore ==
    /\ inserts = <<>>
    /\ updates = <<>>
    /\ logs = <<>>
    /\ settings = <<>>
    /\ running = TRUE
    /\ lock = "none"
    /\ engine = "open"
    /\ sink \in Sinks
    /\ pc = [f \in Flushers |-> "init"]
    /\ snapI = [f \in Flushers |-> <<>>]
    /\ snapU = [f \in Flushers |-> <<>>]
    /\ staged = [f \in Flushers |-> <<>>]
    /\ owner = [u \in 1..MaxOps |-> "none"]
    /\ outcome = [f \in Flushers |-> "none"]
    /\ faults = 0
    /\ nextUid = 1
    /\ nextUpd = 1
    /\ nSync = 0
    /\ syncPc = "idle"
    /\ syncStaged = <<>>
    /\ syncFile = NoFile
    /\ syncRet = None
    /\ clock = 0
    /\ purgePc = "idle"
    /\ threshold = 0
    /\ raised = {}
    /\ badEvents = 0
    /\ event = NoEvent
    /\ fs = NoRun

\* Config.Logging.retention: 7 days unless the configuration file sets it
Init == InitStore /\ retention = DefaultRetention

\* -------------------------------------------------------------- producers
\* the value of the n-th update: every update carries its own value
ValOf(n) == <<"v", n>>

\* the value Config.sync stores for the file's digest d
Hex(d) == <<d, 0>>

\* a producer thread calls insert() with a new Log object
Insert ==
    \E msg \in Messages :
        /\ Room
        /\ event' = [Event("INFO", msg) EXCEPT !.module = "main"]
        /\ Enqueue(event')
        /\ UNCHANGED <<updates, nextUpd, storeVars, running, lock, engine,
                       sink, fs, pc, flushLocals, faults, syncVars, purgeVars, badEvents>>

\* a producer thread calls update() with a Setting object
Update ==
    \E k \in Keys :
        /\ Room
        /\ updates' = update(updates, [key |-> k, value |-> ValOf(nextUpd)])
        /\ nextUpd' = nextUpd + 1
        /\ UNCHANGED <<inserts, nextUid, storeVars, running, lock, engine,
                       sink, fs, pc, flushLocals, faults, syncVars, purgeVars, badEvents, event>>

\* SQLiteHandler.emit with a log event one part of which cannot be read. Line
\* 187 reads message.created before the try: its error goes to the caller of
\* the logging call. Lines 189-195 read the level name and the message inside
\* the try: the error is caught and line 199 reports it with
\* logging.exception, a logging call on the root logger.
EmitBad(part) ==
    /\ sink # "off"
    /\ Room
    /\ badEvents' = badEvents + 1
    /\ event' = [Event("INFO", "a") EXCEPT !.module = "main", !.bad = part]
    /\ IF part = "created"
       THEN /\ raised' = raised \cup {"emit"}
            /\ UNCHANGED <<inserts, nextUid>>
       ELSE /\ Enqueue(Event("ERROR", "unexpected"))
            /\ UNCHANGED raised
    /\ UNCHANGED <<updates, nextUpd, storeVars, running, lock, engine, sink, fs, pc,
                   flushLocals, faults, syncVars, clock, retention, purgePc,
                   threshold>>

\* SQLiteHandler.emit with a log event of any module, level and message that
\* was created now or earlier
Emit(ev) ==
    /\ SinkTakes(ev.levelname)
    /\ Room
    /\ event' = ev
    /\ Enqueue(ev)
    /\ UNCHANGED <<updates, nextUpd, storeVars, running, lock, engine, sink, fs, pc,
                   flushLocals, faults, syncVars, purgeVars, badEvents>>

\* ------------------------------------------------------------------ flushB
Goto(f, l) == pc' = [pc EXCEPT ![f] = l]

\* a failure after which flushB goes on to the checkpoint
FailedThenCkpt(f, how) ==
    /\ Goto(f, "ckpt")
    /\ outcome' = [outcome EXCEPT ![f] = how]

\* an exception in the try block: control goes to the except clause
Failed(f, how) ==
    /\ Goto(f, "except")
    /\ outcome' = [outcome EXCEPT ![f] = how]

\* the database fails an operation (it is locked, an I/O error): ok is FALSE
Fault(ok) ==
    IF ok THEN UNCHANGED faults
    ELSE faults < MaxFaults /\ faults' = faults + 1

\* a flushB without the check of line 90: it goes on with an empty snapshot
SnapNoCheck(f) ==
    /\ pc[f] = "snap"
    /\ snapI' = [snapI EXCEPT ![f] = inserts]
    /\ snapU' = [snapU EXCEPT ![f] = updates]
    /\ Goto(f, "add")
    /\ UNCHANGED <<outcome, queueVars, storeVars, running, lock, engine, sink, fs,
                   staged, owner, faults, syncVars, purgeVars, badEvents, event>>

\* lines 87-93: inserts = list(self.inserts); updates = list(self.updates);
\* return if both are empty; session = self.Session()
Snap(f) ==
    /\ pc[f] = "snap"
    /\ snapI' = [snapI EXCEPT ![f] = inserts]
    /\ snapU' = [snapU EXCEPT ![f] = updates]
    /\ IF inserts = <<>> /\ updates = <<>>
       THEN Goto(f, "ret") /\ outcome' = [outcome EXCEPT ![f] = "empty"]
       ELSE Goto(f, "add") /\ UNCHANGED outcome
    /\ UNCHANGED <<queueVars, storeVars, running, lock, engine, sink, fs, staged,
                   owner, faults, syncVars, purgeVars, badEvents, event>>

\* session.add(obj) is refused for an object attached to another session
\* (InvalidRequestError)
CanAdd(f, objs) == \A i \in 1..Len(objs) : owner[objs[i].uid] \in {"none", f}

\* what line 98 leaves of the deque: self.inserts.clear()
ClearedInserts(q, snap) == <<>>

\* lines 95-98: for obj in inserts: session.add(obj); self.inserts.clear()
Add(f) ==
    /\ pc[f] = "add"
    /\ IF CanAdd(f, snapI[f])
       THEN /\ owner' = [u \in 1..MaxOps |->
                            IF u \in Uids(snapI[f]) THEN f ELSE owner[u]]
            /\ inserts' = ClearedInserts(inserts, snapI[f])
            /\ Goto(f, "parse")
            /\ UNCHANGED outcome
       ELSE /\ Failed(f, "txfail")
            /\ UNCHANGED <<owner, inserts>>
    /\ UNCHANGED faults
    /\ UNCHANGED <<updates, nextUid, nextUpd, storeVars, running,
                   lock, engine, sink, fs, snapI, snapU, staged, syncVars, purgeVars, badEvents, event>>

\* the for loop of lines 100-101 over the snapshot, from pending changes st
RECURSIVE ParseAll(_, _, _)
ParseAll(st, tbl, objs) ==
    IF objs = <<>> THEN st
    ELSE ParseAll(parse(st, tbl, Head(objs)), tbl, Tail(objs))

\* what line 103 leaves of the deque: self.updates.clear()
ClearedUpdates(q, snap) == <<>>

\* lines 100-103: for obj in updates: self.parse(session, obj);
\* self.updates.clear(). A query may fail (the database is locked, an I/O error)
Parse(f) ==
    /\ pc[f] = "parse"
    /\ engine' = IF snapU[f] = <<>> THEN engine ELSE "open"
    /\ \E ok \in BOOLEAN :
        /\ ok \/ snapU[f] # <<>>
        /\ Fault(ok)
        /\ IF ok
           THEN /\ staged' = [staged EXCEPT ![f] = ParseAll(<<>>, settings, snapU[f])]
                /\ updates' = ClearedUpdates(updates, snapU[f])
                /\ Goto(f, "commit")
                /\ UNCHANGED outcome
           ELSE /\ Failed(f, "txfail")
                /\ UNCHANGED <<staged, updates>>
    /\ UNCHANGED <<inserts, nextUid, nextUpd, storeVars, running, lock,
                   sink, fs, snapI, snapU, owner, syncVars, purgeVars, badEvents, event>>

\* line 104: session.commit(); it fails on a violated UNIQUE index or an I/O
\* error, and then nothing of the transaction is committed
Commit(f) ==
    /\ pc[f] = "commit"
    /\ engine' = "open"
    /\ \E ok \in BOOLEAN :
        /\ Fault(ok)
        /\ IF ok /\ UniqueOK(settings, staged[f])
           THEN /\ logs' = CommitLogs(logs, Pending(f))
                /\ settings' = CommitSettings(settings, staged[f])
                /\ staged' = [staged EXCEPT ![f] = <<>>]
                /\ Goto(f, "ckpt")
                /\ UNCHANGED outcome
           ELSE /\ Failed(f, "txfail")
                /\ UNCHANGED <<logs, settings, staged>>
    /\ UNCHANGED <<queueVars, running, lock, sink, fs, snapI, snapU, owner,
                   syncVars, purgeVars, badEvents, event>>

\* lines 106-112: PRAGMA wal_checkpoint(TRUNCATE) on a connection of the engine;
\* logging.debug("flushed ...")
Ckpt(f) ==
    /\ pc[f] = "ckpt"
    /\ engine' = "open"
    /\ \E ok \in BOOLEAN :
        /\ Fault(ok)
        /\ IF ok
           THEN /\ Logged("DEBUG", "flushed")
                /\ Goto(f, "finally")
                /\ outcome' = [outcome EXCEPT ![f] = "ok"]
           ELSE /\ Failed(f, "ckptfail")
                /\ UNCHANGED <<inserts, nextUid, event>>
    /\ UNCHANGED <<updates, nextUpd, storeVars, running, lock, sink, fs, snapI,
                   snapU, staged, owner, syncVars, purgeVars, badEvents>>

\* lines 114-116: logging.exception("unexpected ..."); session.rollback(): the
\* pending changes are discarded, the pending objects leave the session
Except(f) ==
    /\ pc[f] = "except"
    /\ Logged("ERROR", "unexpected")
    /\ staged' = [staged EXCEPT ![f] = <<>>]
    /\ owner' = [u \in 1..MaxOps |->
                    IF owner[u] = f /\ u \notin Uids(logs) THEN "none" ELSE owner[u]]
    /\ Goto(f, "finally")
    /\ UNCHANGED <<updates, nextUpd, storeVars, running, lock, engine,
                   sink, fs, snapI, snapU, outcome, faults, syncVars, purgeVars, badEvents>>

\* lines 118-119: session.close(): every object of the session is detached
Finally(f) ==
    /\ pc[f] = "finally"
    /\ owner' = [u \in 1..MaxOps |-> IF owner[u] = f THEN "none" ELSE owner[u]]
    /\ Goto(f, "ret")
    /\ UNCHANGED <<queueVars, storeVars, running, lock, engine, sink, fs, snapI, snapU,
                   staged, outcome, faults, syncVars, purgeVars, badEvents, event>>

\* flushB has returned to its caller: its locals are gone
Forget(f) ==
    /\ snapI' = [snapI EXCEPT ![f] = <<>>]
    /\ snapU' = [snapU EXCEPT ![f] = <<>>]
    /\ outcome' = [outcome EXCEPT ![f] = "none"]

\* ------------------------------------------------ flush(): the asyncio lock
\* line 165: async with self.lock, entered by listen() or close()
Acquire(f) ==
    /\ pc[f] = "acq"
    /\ lock = "none"
    /\ lock' = f
    /\ Goto(f, "snap")
    /\ UNCHANGED <<inserts, updates, nextUid, nextUpd, storeVars, running,
                   engine, sink, fs, flushLocals, faults, syncVars, purgeVars, badEvents, event>>

\* ----------------------------------------------------------------- listen
\* line 169: logging.debug("listener is up and running.")
ListenStart ==
    /\ pc["listen"] = "init"
    /\ Logged("DEBUG", "up")
    /\ Goto("listen", "loop")
    /\ UNCHANGED <<updates, nextUpd, storeVars, running, lock, engine,
                   sink, fs, flushLocals, faults, syncVars, purgeVars, badEvents>>

\* a loop that does not look at self.running
ListenLoopForever ==
    /\ pc["listen"] = "loop"
    /\ Goto("listen", "acq")
    /\ UNCHANGED <<queueVars, storeVars, running, lock, engine, sink, fs, flushLocals,
                   faults, syncVars, purgeVars, badEvents, event>>

\* line 171: while self.running
ListenLoop ==
    /\ pc["listen"] = "loop"
    /\ Goto("listen", IF running THEN "acq" ELSE "done")
    /\ UNCHANGED <<queueVars, storeVars, running, lock, engine, sink, fs, flushLocals,
                   faults, syncVars, purgeVars, badEvents, event>>

\* lines 172-173: flush() returns, the lock is released; asyncio.sleep(60)
ListenSleep ==
    /\ pc["listen"] = "ret"
    /\ lock' = "none"
    /\ Goto("listen", "loop")
    /\ Forget("listen")
    /\ UNCHANGED <<queueVars, storeVars, running, engine, sink, fs, staged, owner, faults, syncVars, purgeVars, badEvents, event>>

\* ------------------------------------------------------------ SQLite.close
\* lines 159-161: self.running = False; await self.flush()
CloseStart ==
    /\ pc["close"] = "init"
    /\ running' = FALSE
    /\ Goto("close", "acq")
    /\ UNCHANGED <<queueVars, storeVars, lock, engine, sink, fs, flushLocals, faults,
                   syncVars, purgeVars, badEvents, event>>

\* lines 161-162: flush() returns, the lock is released;
\* logging.debug("listener is shutting down!")
CloseDone ==
    /\ pc["close"] = "ret"
    /\ lock' = "none"
    /\ Logged("DEBUG", "down")
    /\ Goto("close", "done")
    /\ UNCHANGED <<updates, nextUpd, storeVars, running, engine, sink, fs,
                   flushLocals, faults, syncVars, purgeVars, badEvents>>

\* ------------------------------------------------------ SQLiteHandler.close
\* line 182: self.sqlite.flushB(), without the lock
HandlerStart ==
    /\ pc["handler"] = "init"
    /\ Goto("handler", "snap")
    /\ UNCHANGED <<inserts, updates, nextUid, nextUpd, storeVars, running,
                   lock, engine, sink, fs, flushLocals, faults, syncVars, purgeVars, badEvents, event>>

\* lines 183-184: self.sqlite.engine.dispose(); super().close()
HandlerDispose ==
    /\ pc["handler"] = "ret"
    /\ engine' = "disposed"
    /\ Goto("handler", "done")
    /\ UNCHANGED <<queueVars, storeVars, running, lock, sink, fs, flushLocals, faults, syncVars, purgeVars, badEvents, event>>

\* ------------------------------------------------------------- Config.sync
\* a load that returns the digest of whatever bytes it was given
loadAnyBytes(file) == Hex(file.bytes)

\* Config.load, lines 63-97: the hex digest of the bytes read, or None when the
\* file is missing or unreadable or its bytes are not a YAML configuration
load(file) == IF file.kind = "ok" THEN Hex(file.bytes) ELSE None

\* a comparison that never finds the stored digest equal
NeverSame(tbl, sha) == FALSE

\* lines 114-116: the row of config-sha256 exists and holds the digest
SameDigest(tbl, sha) == HasKey(tbl, ConfigKey) /\ RowOf(tbl, ConfigKey).value = sha

\* a sync that hands the new digest to update() and leaves the write to the
\* next flush
SyncBuffered(file) ==
    /\ syncPc = "idle"
    /\ Room
    /\ nSync' = nSync + 1
    /\ syncFile' = file
    /\ syncRet' = None
    /\ updates' = IF load(file) = None \/ SameDigest(settings, load(file))
                  THEN updates
                  ELSE update(updates, [key |-> ConfigKey, value |-> load(file)])
    /\ UNCHANGED <<inserts, nextUid, nextUpd, syncPc, syncStaged, storeVars,
                   running, lock, engine, sink, fs, pc, flushLocals, faults,
                   purgeVars, badEvents, event>>

\* lines 110-124: sha256 = self.load(); return None if there is none or if the
\* stored digest equals it; else find or create the row, set its value and
\* updated_on
Sync(file) ==
    /\ syncPc = "idle"
    /\ Room
    /\ nSync' = nSync + 1
    /\ syncFile' = file
    /\ IF load(file) = None
       THEN /\ syncRet' = None
            /\ UNCHANGED <<syncPc, syncStaged, engine>>
       ELSE /\ engine' = "open"
            /\ IF SameDigest(settings, load(file))
               THEN /\ syncRet' = None
                    /\ UNCHANGED <<syncPc, syncStaged>>
               ELSE /\ syncStaged' = parse(<<>>, settings,
                                           [key |-> ConfigKey, value |-> load(file)])
                    /\ syncPc' = "commit"
                    /\ UNCHANGED syncRet
    /\ UNCHANGED <<queueVars, storeVars, running, lock, sink, fs, pc, flushLocals, faults, purgeVars, badEvents, event>>

\* lines 126-127: session.commit(); return now. A violated UNIQUE index raises
\* to the caller
SyncCommit ==
    /\ syncPc = "commit"
    /\ IF UniqueOK(settings, syncStaged)
       THEN /\ settings' = CommitSettings(settings, syncStaged)
            /\ syncRet' = <<syncStaged[1].updated_on>>
            /\ UNCHANGED raised
       ELSE /\ raised' = raised \cup {"sync"}
            /\ UNCHANGED <<settings, syncRet>>
    /\ syncStaged' = <<>>
    /\ syncPc' = "idle"
    /\ engine' = "open"
    /\ UNCHANGED <<nSync, syncFile, queueVars, logs, running, lock, sink, fs, pc,
                   flushLocals, faults, clock, retention, purgePc, threshold,
                   badEvents, event>>

\* ------------------------------------------------------------ SQLite.purge
\* a day passes
Tick ==
    /\ clock < MaxClock
    /\ clock' = clock + 1
    /\ UNCHANGED <<queueVars, storeVars, running, lock, engine, sink, fs, pc,
                   flushLocals, faults, syncVars, retention, purgePc, threshold,
                   raised, badEvents, event>>

\* the rows of logs that a DELETE ... WHERE updated_on < th leaves
Kept(tbl, th) == SelectSeq(tbl, LAMBDA r : ~(r.updated_on < th))

\* lines 138-146: threshold = now - retention days; count the rows older than
\* it; if there are any, logging.debug("purge logs earlier than ..."). purge has
\* no except clause: an error of the query goes to the caller (through the
\* finally clause, which closes the session)
PurgeCount ==
    /\ purgePc = "idle"
    /\ engine' = "open"
    /\ \E ok \in BOOLEAN :
        /\ Fault(ok)
        /\ IF ok /\ Kept(logs, clock - retention) # logs
           THEN /\ threshold' = clock - retention
                /\ Logged("DEBUG", "purge")
                /\ purgePc' = "delete"
                /\ UNCHANGED raised
           ELSE /\ raised' = IF ok THEN raised ELSE raised \cup {"purge"}
                /\ UNCHANGED <<threshold, inserts, nextUid, purgePc, event>>
    /\ UNCHANGED <<updates, nextUpd, storeVars, running, lock, sink, fs, pc,
                   flushLocals, syncVars, clock, retention, badEvents>>

\* lines 148-154: DELETE FROM logs WHERE updated_on < threshold; commit;
\* logging.debug("... done"); finally session.close()
PurgeDelete ==
    /\ purgePc = "delete"
    /\ engine' = "open"
    /\ purgePc' = "idle"
    /\ threshold' = 0
    /\ \E ok \in BOOLEAN :
        /\ Fault(ok)
        /\ IF ok
           THEN /\ logs' = Kept(logs, threshold)
                /\ Logged("DEBUG", "purged")
                /\ UNCHANGED raised
           ELSE /\ raised' = raised \cup {"purge"}
                /\ UNCHANGED <<logs, inserts, nextUid, event>>
    /\ UNCHANGED <<updates, nextUpd, settings, running, lock, sink, fs, pc,
                   flushLocals, syncVars, clock, retention, badEvents>>

\* ------------------------------------------------------------------- Next
\* ------------------------------------------------------------ FileSync.run
\* every variable of the store
storeAll == <<queueVars, storeVars, running, lock, engine, sink, pc, flushLocals,
              faults, syncVars, purgeVars, badEvents, event>>

\* run(download, check, target, list, generate, reset) is called, with the
\* configuration and the hosts as they are
RunCall ==
    /\ fs.pc = "idle"
    /\ \E d \in BOOLEAN, c \in BOOLEAN, t \in Selected, l \in BOOLEAN,
          g \in BOOLEAN, r \in BOOLEAN, hosts \in Configured, bad \in BadAuth :
          fs' = [NoRun EXCEPT !.pc = "start",
                              !.args = [download |-> d, check |-> c, target |-> t,
                                        list |-> l, generate |-> g, reset |-> r],
                              !.targets = hosts, !.bad = bad,
                              !.download = d, !.check = c]
    /\ UNCHANGED storeAll

\* lines 168-195: reset, generate and list return; else found = False, and
\* download = check = True if neither was asked for
RunDispatch ==
    /\ fs.pc = "start"
    /\ fs' = IF fs.args.reset
             THEN [fs EXCEPT !.pc = "done", !.ran = <<"reset">>]
             ELSE IF fs.args.generate
             THEN [fs EXCEPT !.pc = "done", !.ran = <<"generate">>]
             ELSE IF fs.args.list
             THEN [fs EXCEPT !.pc = "done", !.ran = <<"list">>]
             ELSE IF ~(fs.download \/ fs.check)
             THEN [fs EXCEPT !.pc = "download", !.found = FALSE,
                             !.download = TRUE, !.check = TRUE]
             ELSE [fs EXCEPT !.pc = "download", !.found = FALSE]
    /\ UNCHANGED storeAll

\* lines 196-198: if download: found = found or self.download(target)
RunDownload ==
    /\ fs.pc = "download"
    /\ fs' = IF fs.download
             THEN [fs EXCEPT !.pc = "check", !.ran = Append(@, "download"),
                             !.found = @ \/ download(fs.args.target, fs.targets,
                                                     fs.bad, FALSE)]
             ELSE [fs EXCEPT !.pc = "check"]
    /\ UNCHANGED storeAll

\* lines 200-202: if check: found = found or self.check(target)
RunCheck ==
    /\ fs.pc = "check"
    /\ fs' = IF fs.check
             THEN [fs EXCEPT !.pc = "report", !.ran = Append(@, "check"),
                             !.found = @ \/ check(fs.args.target, fs.targets, FALSE)]
             ELSE [fs EXCEPT !.pc = "report"]
    /\ UNCHANGED storeAll

\* lines 203-204: if not found: logger.info("nothing found!")
RunReport ==
    /\ fs.pc = "report"
    /\ fs' = [fs EXCEPT !.pc = "done", !.said = ~fs.found]
    /\ UNCHANGED storeAll

Next ==
    \/ Insert
    \/ Update
    \/ ListenStart
    \/ ListenLoop
    \/ ListenSleep
    \/ CloseStart
    \/ CloseDone
    \/ HandlerStart
    \/ HandlerDispose
    \/ \E f \in {"listen", "close"} : Acquire(f)
    \/ \E f \in Flushers : Snap(f)
    \/ \E f \in Flushers : Add(f)
    \/ \E f \in Flushers : Parse(f)
    \/ \E f \in Flushers : Commit(f)
    \/ \E f \in Flushers : Ckpt(f)
    \/ \E f \in Flushers : Except(f)
    \/ \E f \in Flushers : Finally(f)
    \/ \E file \in Files : Sync(file)
    \/ SyncCommit
    \/ Tick
    \/ PurgeCount
    \/ PurgeDelete
    \/ \E part \in BadParts : EmitBad(part)
    \/ \E call \in Calls, l \in LevelNames, c \in 0..clock :
          Emit([module |-> call.module, levelname |-> l, text |-> call.text,
                created |-> c, bad |-> "none"])
    \/ RunCall
    \/ RunDispatch
    \/ RunDownload
    \/ RunCheck
    \/ RunReport

Spec == Init /\ [][Next]_vars

\* --------------------------------------------------------------- scenarios
\* The store under flush(): the periodic task and close() flush under the
\* lock, producers and Config.sync run beside them; SQLiteHandler.close() is
\* not called.
NextStore ==
    \/ Insert
    \/ Update
    \/ ListenStart
    \/ ListenLoop
    \/ ListenSleep
    \/ CloseStart
    \/ CloseDone
    \/ \E f \in {"listen", "close"} : Acquire(f)
    \/ \E f \in Flushers : Snap(f)
    \/ \E f \in Flushers : Add(f)
    \/ \E f \in Flushers : Parse(f)
    \/ \E f \in Flushers : Commit(f)
    \/ \E f \in Flushers : Ckpt(f)
    \/ \E f \in Flushers : Except(f)
    \/ \E f \in Flushers : Finally(f)
    \/ \E file \in Files : Sync(file)
    \/ SyncCommit

SpecStore == Init /\ [][NextStore]_vars

\* The logging adapter: log records are inserted, the periodic task, close()
\* and SQLiteHandler.close() flush; the root logger is at its default level.
InitAdapter == Init /\ sink = "INFO"

NextAdapter ==
    \/ Insert
    \/ ListenStart
    \/ ListenLoop
    \/ ListenSleep
    \/ CloseStart
    \/ CloseDone
    \/ HandlerStart
    \/ HandlerDispose
    \/ \E f \in {"listen", "close"} : Acquire(f)
    \/ \E f \in Flushers : Snap(f)
    \/ \E f \in Flushers : Add(f)
    \/ \E f \in Flushers : Parse(f)
    \/ \E f \in Flushers : Commit(f)
    \/ \E f \in Flushers : Ckpt(f)
    \/ \E f \in Flushers : Except(f)
    \/ \E f \in Flushers : Finally(f)

SpecAdapter == InitAdapter /\ [][NextAdapter]_vars

\* Producers that keep out of a running flushB: nothing is enqueued between a
\* flush's entry and its return but what the flush itself logs.
NoFlush == \A f \in Flushers : ~InFlush(f)

QuietInsert == NoFlush /\ Insert

QuietUpdate == NoFlush /\ Update

NextQuiet ==
    \/ QuietInsert
    \/ QuietUpdate
    \/ ListenStart
    \/ ListenLoop
    \/ ListenSleep
    \/ CloseStart
    \/ CloseDone
    \/ \E f \in {"listen", "close"} : Acquire(f)
    \/ \E f \in Flushers : Snap(f)
    \/ \E f \in Flushers : Add(f)
    \/ \E f \in Flushers : Parse(f)
    \/ \E f \in Flushers : Commit(f)
    \/ \E f \in Flushers : Ckpt(f)
    \/ \E f \in Flushers : Except(f)
    \/ \E f \in Flushers : Finally(f)

SpecQuiet == Init /\ [][NextQuiet]_vars

\* Shutdown: producers enqueue until close() is called and not after it; the
\* root logger is at its default level, so that the store logs nothing into
\* its own queue unless an operation fails.
EarlyInsert == pc["close"] = "init" /\ Insert

EarlyUpdate == pc["close"] = "init" /\ Update

NextShutdown ==
    \/ EarlyInsert
    \/ EarlyUpdate
    \/ ListenStart
    \/ ListenLoop
    \/ ListenSleep
    \/ CloseStart
    \/ CloseDone
    \/ \E f \in {"listen", "close"} : Acquire(f)
    \/ \E f \in Flushers : Snap(f)
    \/ \E f \in Flushers : Add(f)
    \/ \E f \in Flushers : Parse(f)
    \/ \E f \in Flushers : Commit(f)
    \/ \E f \in Flushers : Ckpt(f)
    \/ \E f \in Flushers : Except(f)
    \/ \E f \in Flushers : Finally(f)

SpecShutdown == InitAdapter /\ [][NextShutdown]_vars

\* listen() and close() as tasks of one asyncio event loop: a coroutine runs
\* from one suspension to the next without the other running. listen() is
\* suspended before its first step and in asyncio.sleep (a lock that is free
\* is acquired without suspending, and flushB does not await); close() does
\* not suspend. Producers are threads. The SQLiteHandler is not attached.
Suspended(f) ==
    IF f = "listen" THEN pc["listen"] \in {"init", "loop", "done"}
    ELSE pc["close"] \in {"init", "done"}

LoopListenStart == Suspended("close") /\ ListenStart

LoopListenLoop == Suspended("close") /\ ListenLoop

LoopCloseStart == Suspended("listen") /\ CloseStart

\* the steps of f's flush(), from the lock to the return of flushB
FlushRun(f) ==
    \/ Acquire(f)
    \/ Snap(f)
    \/ Add(f)
    \/ Parse(f)
    \/ Commit(f)
    \/ Ckpt(f)
    \/ Except(f)
    \/ Finally(f)

ListenTask ==
    \/ LoopListenStart
    \/ LoopListenLoop
    \/ ListenSleep
    \/ FlushRun("listen")

CloseRun ==
    \/ CloseDone
    \/ FlushRun("close")

InitLoop == Init /\ sink = "off"

NextLoop ==
    \/ Insert
    \/ Update
    \/ LoopCloseStart
    \/ ListenTask
    \/ CloseRun

\* the event loop runs a task that is ready
SpecLoop == InitLoop /\ [][NextLoop]_vars /\ WF_vars(ListenTask) /\ WF_vars(CloseRun)

\* The logging adapter with log events it cannot make a row of, beside the
\* store's shutdown flush.
NextEmit ==
    \/ Insert
    \/ \E part \in BadParts : EmitBad(part)
    \/ CloseStart
    \/ CloseDone
    \/ Acquire("close")
    \/ \E f \in Flushers : Snap(f)
    \/ \E f \in Flushers : Add(f)
    \/ \E f \in Flushers : Parse(f)
    \/ \E f \in Flushers : Commit(f)
    \/ \E f \in Flushers : Ckpt(f)
    \/ \E f \in Flushers : Except(f)
    \/ \E f \in Flushers : Finally(f)

SpecEmit == InitAdapter /\ [][NextEmit]_vars

\* The logging adapter alone: log events of every module, level and message,
\* created now or on an earlier day, and log events it cannot read.
NextRecord ==
    \/ \E call \in Calls, l \in LevelNames, c \in 0..clock :
          Emit([module |-> call.module, levelname |-> l, text |-> call.text,
                created |-> c, bad |-> "none"])
    \/ \E part \in BadParts : EmitBad(part)
    \/ Tick

SpecRecord == InitAdapter /\ [][NextRecord]_vars

\* Updates of settings over several days, flushed by the periodic task.
NextSettings ==
    \/ Update
    \/ Tick
    \/ ListenStart
    \/ ListenLoop
    \/ ListenSleep
    \/ Acquire("listen")
    \/ \E f \in Flushers : Snap(f)
    \/ \E f \in Flushers : Add(f)
    \/ \E f \in Flushers : Parse(f)
    \/ \E f \in Flushers : Commit(f)
    \/ \E f \in Flushers : Ckpt(f)
    \/ \E f \in Flushers : Except(f)
    \/ \E f \in Flushers : Finally(f)

SpecSettings == InitLoop /\ [][NextSettings]_vars

\* Config.sync beside the store: the configuration file is edited between
\* calls of sync() as the days pass, settings other than the digest are updated
\* and flushed by close(). Config.sync is the program's only writer of the
\* config-sha256 row.
OtherUpdate == Update /\ \A i \in 1..Len(updates') : updates'[i].key # ConfigKey

NextSync ==
    \/ \E file \in Files : Sync(file)
    \/ SyncCommit
    \/ Tick
    \/ OtherUpdate
    \/ CloseStart
    \/ CloseDone
    \/ Acquire("close")
    \/ \E f \in Flushers : Snap(f)
    \/ \E f \in Flushers : Add(f)
    \/ \E f \in Flushers : Parse(f)
    \/ \E f \in Flushers : Commit(f)
    \/ \E f \in Flushers : Ckpt(f)
    \/ \E f \in Flushers : Except(f)
    \/ \E f \in Flushers : Finally(f)

SpecSync == Init /\ [][NextSync]_vars

\* purge() beside the periodic flush: records are logged and settings updated
\* as the days pass, listen() flushes them, and a thread calls purge(); the
\* retention is the one the configuration file sets.
InitPurge == InitStore /\ retention \in Retentions

NextPurge ==
    \/ Insert
    \/ Update
    \/ Tick
    \/ PurgeCount
    \/ PurgeDelete
    \/ ListenStart
    \/ ListenLoop
    \/ ListenSleep
    \/ Acquire("listen")
    \/ \E f \in Flushers : Snap(f)
    \/ \E f \in Flushers : Add(f)
    \/ \E f \in Flushers : Parse(f)
    \/ \E f \in Flushers : Commit(f)
    \/ \E f \in Flushers : Ckpt(f)
    \/ \E f \in Flushers : Except(f)
    \/ \E f \in Flushers : Finally(f)

SpecPurge == InitPurge /\ [][NextPurge]_vars

\* Every writer of the store together: records are logged and the digest
\* setting updated between the flushes of listen() as the days pass, a thread
\* calls purge(),
\* and Config.sync() is called with a well-formed file and runs to its return
\* before another step is taken (main calls it on the main thread). Nothing is
\* retained beyond the day: retention = 0.
InitRows == InitStore /\ retention = 0 /\ sink = "off"

NextRows ==
    \/ syncPc = "idle" /\ QuietInsert
    \/ syncPc = "idle" /\ QuietUpdate /\ updates'[Len(updates')].key = ConfigKey
    \/ syncPc = "idle" /\ Tick
    \/ syncPc = "idle" /\ PurgeCount
    \/ syncPc = "idle" /\ PurgeDelete
    \/ Sync([kind |-> "ok", bytes |-> "d1"])
    \/ SyncCommit
    \/ syncPc = "idle" /\ ListenStart
    \/ syncPc = "idle" /\ ListenLoop
    \/ syncPc = "idle" /\ ListenSleep
    \/ syncPc = "idle" /\ Acquire("listen")
    \/ \E f \in Flushers : syncPc = "idle" /\ Snap(f)
    \/ \E f \in Flushers : syncPc = "idle" /\ Add(f)
    \/ \E f \in Flushers : syncPc = "idle" /\ Parse(f)
    \/ \E f \in Flushers : syncPc = "idle" /\ Commit(f)
    \/ \E f \in Flushers : syncPc = "idle" /\ Ckpt(f)
    \/ \E f \in Flushers : syncPc = "idle" /\ Except(f)
    \/ \E f \in Flushers : syncPc = "idle" /\ Finally(f)

SpecRows == InitRows /\ [][NextRows]_vars

\* One call of FileSync.run with every combination of its flags, the selected
\* target, the configured hosts and the hosts that refuse the credentials.
NextRun ==
    \/ RunCall
    \/ RunDispatch
    \/ RunDownload
    \/ RunCheck
    \/ RunReport

SpecRun == Init /\ [][NextRun]_vars

\* ------------------------------------------------------------------ claims
\* caller f takes a step of its flushB
Steps(f) == InFlush(f) /\ pc'[f] # pc[f]

\* caller f's session.commit() succeeds in this step
Commits(f) == pc[f] = "commit" /\ pc'[f] = "ckpt"

\* the rows of table tbl that came from Log object u
RowsOf(tbl, u) == {j \in 1..Len(tbl) : tbl[j].uid = u}

\* the value of the last update of key k in the snapshot snap
LastVal(snap, k) ==
    snap[CHOOSE i \in 1..Len(snap) :
            /\ snap[i].key = k
            /\ \A j \in (i + 1)..Len(snap) : snap[j].key # k].value

KeysOf(snap) == {snap[i].key : i \in 1..Len(snap)}

\* C1: flush() drains a snapshot: a step of flushB removes from the pending
\* queues no record that is not in its snapshot, so a record enqueued after
\* the snapshot is still pending when flushB returns.
C1_FlushDrainsSnapshot ==
    [][\A f \in Flushers :
          Steps(f) =>
              /\ \A i \in 1..Len(inserts) :
                    inserts[i] \notin Range(snapI[f]) => inserts[i] \in Range(inserts')
              /\ \A i \in 1..Len(updates) :
                    updates[i] \notin Range(snapU[f]) => updates[i] \in Range(updates')]_vars

\* C2: when a flush commits, every record of its snapshot is one row of logs
\* of its own, with the record's key and value (equal records are not merged),
\* and the rows' ids increase in enqueue order.
C2_InsertsBecomeRows ==
    [][\A f \in Flushers :
          Commits(f) =>
              /\ \A i \in 1..Len(snapI[f]) :
                    /\ Cardinality(RowsOf(logs', snapI[f][i].uid)) = 1
                    /\ \A j \in RowsOf(logs', snapI[f][i].uid) :
                          /\ logs'[j].key = snapI[f][i].key
                          /\ logs'[j].value = snapI[f][i].value
              /\ \A i, k \in 1..Len(snapI[f]) :
                    i < k => \A j \in RowsOf(logs', snapI[f][i].uid),
                                l \in RowsOf(logs', snapI[f][k].uid) :
                                logs'[j].id < logs'[l].id
              /\ \A j, l \in 1..Len(logs') : j < l => logs'[j].id < logs'[l].id]_vars

\* C2 witness: a flush has committed a snapshot of two equal records, and both
\* are rows
C2_Witness ==
    \E f \in Flushers :
        /\ pc[f] = "ckpt"
        /\ Len(snapI[f]) >= 2
        /\ snapI[f][1].key = snapI[f][2].key
        /\ snapI[f][1].value = snapI[f][2].value
        /\ {snapI[f][1].uid, snapI[f][2].uid} \subseteq Uids(logs)

\* C3: when a flush that went through returns, and nothing was enqueued during
\* it by a producer, both pending queues are empty, whatever the logging set-up.
C3_QueuesEmptyAfterFlush ==
    [][\A f \in Flushers :
          (InFlush(f) /\ pc'[f] = "ret" /\ outcome'[f] \in {"ok", "empty"}) =>
              (inserts' = <<>> /\ updates' = <<>>)]_vars

\* C4: when a flush commits, every key its snapshot updates has exactly one
\* settings row, and the row's value is that of the last update enqueued.
C4_LastUpdateWins ==
    [][\A f \in Flushers :
          Commits(f) =>
              \A k \in KeysOf(snapU[f]) :
                  /\ Cardinality({j \in 1..Len(settings') : settings'[j].key = k}) = 1
                  /\ RowOf(settings', k).value = LastVal(snapU[f], k)]_vars

\* C4 witness: a flush has committed a snapshot with two updates of one key
C4_Witness ==
    \E f \in Flushers :
        /\ pc[f] = "ckpt"
        /\ Len(snapU[f]) >= 2
        /\ snapU[f][1].key = snapU[f][2].key
        /\ HasKey(settings, snapU[f][1].key)
        /\ RowOf(settings, snapU[f][1].key).value = snapU[f][2].value

\* C5: the committed settings table holds at most one row per key.
C5_OneRowPerKey ==
    \A i, j \in 1..Len(settings) : settings[i].key = settings[j].key => i = j

\* C5 witness: Config.sync has written the digest row while a flush that had
\* found no such row was about to commit one
C5_Witness ==
    \E f \in Flushers :
        /\ pc[f] = "except"
        /\ HasKey(settings, ConfigKey)
        /\ ~UniqueOK(settings, staged[f])

\* C6: at most one flushB is in progress at any time.
C6_OneFlushAtATime == Cardinality({f \in Flushers : InFlush(f)}) <= 1

\* C7: when close() has returned and no database operation has failed, every
\* record enqueued before close() was called is committed: every Log object
\* is a row, and the last update's value is in settings.
C7_CloseFlushesAll ==
    (pc["close"] = "done" /\ faults = 0) =>
        /\ \A u \in 1..(nextUid - 1) : u \in Uids(logs)
        /\ nextUpd > 1 => \E i \in 1..Len(settings) : settings[i].value = ValOf(nextUpd - 1)

\* C8: when close() has returned, the engine is released.
C8_CloseReleasesEngine == pc["close"] = "done" => engine = "disposed"

\* C9: a flush cycle is all-or-nothing: after a failed transaction no record
\* of the snapshot is a row and no update of it is in settings; a commit that
\* succeeds installs every record and, per key, the last update.
C9_AllOrNothing ==
    /\ [](\A f \in Flushers :
            (pc[f] \in {"except", "finally", "ret"} /\ outcome[f] = "txfail") =>
                /\ \A i \in 1..Len(snapI[f]) : snapI[f][i].uid \notin Uids(logs)
                /\ \A i \in 1..Len(snapU[f]), j \in 1..Len(settings) :
                      settings[j].value # snapU[f][i].value)
    /\ [][\A f \in Flushers :
            Commits(f) =>
                /\ \A i \in 1..Len(snapI[f]) : snapI[f][i].uid \in Uids(logs')
                /\ \A k \in KeysOf(snapU[f]) :
                      /\ HasKey(settings', k)
                      /\ RowOf(settings', k).value = LastVal(snapU[f], k)]_vars

\* C9 witness: a transaction with a record and an update has failed at commit
\* and been rolled back
C9_Witness ==
    \E f \in Flushers :
        /\ pc[f] = "ret"
        /\ outcome[f] = "txfail"
        /\ snapI[f] # <<>>
        /\ snapU[f] # <<>>
        /\ updates = <<>>

\* C10: after a flush whose transaction failed, no record of its snapshot is
\* in a pending queue.
C10_FailedFlushDrops ==
    \A f \in Flushers :
        (pc[f] = "ret" /\ outcome[f] = "txfail") =>
            /\ \A i \in 1..Len(inserts) : inserts[i] \notin Range(snapI[f])
            /\ \A i \in 1..Len(updates) : updates[i] \notin Range(snapU[f])

\* C11: a transaction failure inside flush() or purge() is never propagated to
\* the caller: neither operation raises.
C11_FailuresContained == \A op \in {"flush", "purge"} : op \notin raised

\* a step of purge(): the count query that finds rows, or the delete
PurgeSteps == purgePc' # purgePc

\* C12: purge() changes the store exactly by deleting the logs rows older than
\* now minus retention days: the threshold is that day, a delete that goes
\* through removes every such row, a row leaves logs only so, and purge leaves
\* settings and both pending queues as they are.
C12_PurgeDeletesExactly ==
    [][/\ (purgePc = "idle" /\ purgePc' = "delete") => threshold' = clock - retention
       /\ (purgePc = "delete" /\ purgePc' = "idle" /\ faults' = faults) =>
              \A i \in 1..Len(logs') : ~(logs'[i].updated_on < threshold)
       /\ \A i \in 1..Len(logs) :
              logs[i] \notin Range(logs') =>
                  (purgePc = "delete" /\ logs[i].updated_on < threshold)
       /\ PurgeSteps =>
              (settings' = settings /\ inserts' = inserts /\ updates' = updates)]_vars

\* C13: purge() and flush() are mutually exclusive: purge is never between its
\* count and its delete while a flush is between its snapshot and its commit.
C13_PurgeExcludesFlush ==
    ~(purgePc = "delete" /\ \E f \in Flushers : pc[f] \in {"add", "parse", "commit"})

\* a call of Config.sync() reads the file
SyncCalled == nSync' = nSync + 1

\* the rows of config-sha256 in tbl
DigestRows(tbl) == {i \in 1..Len(tbl) : tbl[i].key = ConfigKey}

\* C14: Config.sync() called again on a file whose bytes did not change since
\* its last call returns None and writes nothing: the settings table, and so
\* the digest row's value and updated_on, are as before.
C14_SecondSyncNoChange ==
    [][(SyncCalled /\ nSync > 0 /\ syncFile.kind = "ok" /\ syncFile' = syncFile
            /\ "sync" \notin raised) =>
          (syncRet' = None /\ syncPc' = "idle" /\ settings' = settings)]_vars

\* C14 witness: a later call on the unchanged file has returned None and the
\* digest row still carries the day of the first call
C14_Witness ==
    /\ nSync >= 2
    /\ syncPc = "idle"
    /\ syncFile.kind = "ok"
    /\ syncRet = None
    /\ DigestRows(settings) # {}
    /\ RowOf(settings, ConfigKey).value = Hex(syncFile.bytes)
    /\ RowOf(settings, ConfigKey).updated_on < clock

\* C15: Config.sync() called when there is no digest row, or when the row's
\* value differs from the file's digest, goes on to commit, returns a timestamp
\* and leaves exactly one digest row, with the new digest as its value and the
\* returned timestamp as its updated_on.
C15_SyncWritesDigest ==
    [][/\ (SyncCalled /\ syncFile'.kind = "ok"
              /\ \A i \in DigestRows(settings) :
                    settings[i].value # Hex(syncFile'.bytes)) =>
              syncPc' = "commit"
       /\ (syncPc = "commit" /\ syncPc' = "idle") =>
              /\ syncRet' # None
              /\ Cardinality(DigestRows(settings')) = 1
              /\ \A i \in DigestRows(settings') :
                    /\ settings'[i].value = Hex(syncFile.bytes)
                    /\ <<settings'[i].updated_on>> = syncRet']_vars

\* C15 witness: the file changed after the row was created, and sync() has
\* written the new digest on a later day and returned that day
C15_Witness ==
    /\ syncPc = "idle"
    /\ syncFile.kind = "ok"
    /\ DigestRows(settings) # {}
    /\ RowOf(settings, ConfigKey).value = Hex(syncFile.bytes)
    /\ RowOf(settings, ConfigKey).created_on < RowOf(settings, ConfigKey).updated_on
    /\ syncRet = <<RowOf(settings, ConfigKey).updated_on>>

\* C16: when the configuration file is missing, unreadable or malformed,
\* Config.sync() returns None, raises nothing and leaves the store unchanged.
C16_BadFileNoChange ==
    [][(SyncCalled /\ syncFile'.kind # "ok") =>
          /\ syncRet' = None
          /\ syncPc' = "idle"
          /\ raised' = raised
          /\ settings' = settings
          /\ logs' = logs]_vars

\* C16 witness: sync() has met a malformed file after it had persisted a
\* digest, and the row keeps the digest
C16_Witness ==
    /\ syncPc = "idle"
    /\ syncFile.kind = "malformed"
    /\ syncRet = None
    /\ DigestRows(settings) # {}
    /\ RowOf(settings, ConfigKey).value # Hex(syncFile.bytes)

\* C17: SQLiteHandler.emit() never raises to the logging caller, whatever part
\* of the log event cannot be read.
C17_EmitNeverRaises == "emit" \notin raised

\* C18: the handling of a failure, of emit() to build a record or of a flush,
\* does not come back into the sink: it enqueues no record.
C18_FailureNotReEmitted ==
    [][(\/ badEvents' = badEvents + 1
        \/ \E f \in Flushers : pc[f] = "except" /\ pc'[f] = "finally") =>
          inserts' = inserts]_vars

\* C19: a flushB that finds both queues empty is a no-op: it returns at once,
\* with no session (nothing pending, no object attached), no connection of the
\* engine opened for a transaction or a checkpoint, and the store and both
\* queues as they were.
C19_EmptyFlushNoOp ==
    [][\A f \in Flushers :
          (pc[f] = "snap" /\ pc'[f] # "snap" /\ inserts = <<>> /\ updates = <<>>) =>
              /\ pc'[f] = "ret"
              /\ UNCHANGED <<logs, settings, inserts, updates, engine, staged,
                             owner, faults>>]_vars

\* C19 witness: after the engine was disposed a flush found the queues empty
\* and returned, and the engine is still disposed
C19_Witness ==
    \E f \in Flushers :
        /\ pc[f] = "ret"
        /\ outcome[f] = "empty"
        /\ engine = "disposed"
        /\ logs # <<>>

\* C20: listen() goes into a flush at every wake-up while the store is
\* running and ends at the first wake-up when it is not; once close() has
\* cleared the flag listen() starts no flush, no flush of listen() follows the
\* one of close(), and listen() terminates.
C20_ListenStopsAfterClose ==
    /\ [][/\ (pc["listen"] = "loop" /\ pc'["listen"] # "loop") =>
                pc'["listen"] = IF running THEN "acq" ELSE "done"
          /\ ~running => ~(pc["listen"] # "acq" /\ pc'["listen"] = "acq")]_vars
    /\ [](pc["close"] \notin {"init", "acq"} =>
              (~InFlush("listen") /\ pc["listen"] \notin {"acq", "ret"}))
    /\ (~running ~> pc["listen"] = "done")

\* C20 witness: listen() has flushed, close() has flushed after it, and
\* listen() has ended
C20_Witness ==
    /\ pc["listen"] = "done"
    /\ pc["close"] = "done"
    /\ outcome["close"] = "ok"
    /\ Len(logs) >= 2

\* C21: every log event handed to SQLiteHandler.emit appends exactly one record
\* to the pending-insert queue, whose module is the event's module, whose key
\* is the lower-cased level name, whose value is the event's message and whose
\* created_on and updated_on are the event's creation time.
C21_EmitBuildsRecord ==
    [][(nextUid' # nextUid \/ badEvents' # badEvents) =>
          inserts' = Append(inserts,
                            [uid |-> nextUid,
                             module |-> event'.module,
                             key |-> Lower(event'.levelname),
                             value |-> event'.text,
                             created_on |-> event'.created,
                             updated_on |-> event'.created])]_vars

\* C22: insert() and update() are in-memory appends. A producer can always
\* call them, whoever holds the flush lock and whatever statement a flush is
\* at; the call puts its record at the tail of its own queue and leaves the
\* other queue, the committed rows and the lock as they were.
C22_ProducersOnlyAppend ==
    /\ [][(pc' = pc /\ nextUid' # nextUid) =>
              /\ Len(inserts') = Len(inserts) + 1
              /\ SubSeq(inserts', 1, Len(inserts)) = inserts
              /\ inserts'[Len(inserts')].uid = nextUid
              /\ updates' = updates
              /\ logs' = logs /\ settings' = settings /\ lock' = lock]_vars
    /\ [][(pc' = pc /\ nextUpd' # nextUpd) =>
              /\ Len(updates') = Len(updates) + 1
              /\ SubSeq(updates', 1, Len(updates)) = updates
              /\ updates'[Len(updates')].value = ValOf(nextUpd)
              /\ inserts' = inserts
              /\ logs' = logs /\ settings' = settings /\ lock' = lock]_vars
    /\ [](Room => (ENABLED Insert /\ ENABLED Update))

\* C22 witness: while a flush holds the lock and is about to commit, both
\* queues hold a record that a producer appended after the flush's snapshot
C22_Witness ==
    \E f \in Flushers :
        /\ pc[f] = "commit"
        /\ lock = f
        /\ snapI[f] # <<>>
        /\ inserts # <<>>
        /\ updates # <<>>

\* Log object u is in the snapshot of a flush that has not returned
InsertTaken(u) == \E f \in Flushers : InFlush(f) /\ u \in Uids(snapI[f])

\* the n-th update is in the snapshot of a flush that has not returned
UpdateTaken(n) ==
    \E f \in Flushers : InFlush(f) /\ ValOf(n) \in {r.value : r \in Range(snapU[f])}

\* C23: while the store is running and listen() is scheduled fairly, every
\* record that is in a pending queue is eventually in the snapshot of a flush
\* that begins at or after its enqueue, to be committed or dropped with it.
C23_EnqueuedEventuallyTaken ==
    /\ \A u \in 1..MaxOps :
          (u \in Uids(inserts)) ~> (InsertTaken(u) \/ ~running)
    /\ \A n \in 1..MaxOps :
          (ValOf(n) \in {r.value : r \in Range(updates)}) ~>
              (UpdateTaken(n) \/ ~running)

\* C24: a committed flush whose snapshot holds an update of a key that has a
\* settings row changes that row in place: after the commit the row with the
\* same id has the same key and created_on, the value of the last update of
\* the key, and an updated_on that is not earlier than before; the key still
\* has exactly one row.
C24_UpdateInPlace ==
    [][\A f \in Flushers :
          Commits(f) =>
              \A i \in 1..Len(settings) :
                  settings[i].key \in KeysOf(snapU[f]) =>
                      /\ \E j \in 1..Len(settings') :
                            /\ settings'[j].id = settings[i].id
                            /\ settings'[j].key = settings[i].key
                            /\ settings'[j].created_on = settings[i].created_on
                            /\ settings'[j].value = LastVal(snapU[f], settings[i].key)
                            /\ settings'[j].updated_on >= settings[i].updated_on
                      /\ Cardinality({j \in 1..Len(settings') :
                                        settings'[j].key = settings[i].key}) = 1]_vars

\* C24 witness: a row created on one day carries the value of a later update
\* that was flushed on a later day
C24_Witness ==
    \E i \in 1..Len(settings) :
        /\ settings[i].updated_on > settings[i].created_on
        /\ settings[i].value # ValOf(1)
        /\ pc["listen"] = "ret"
        /\ outcome["listen"] = "ok"

\* C25: whatever insert, update, flush, purge and sync do, a committed logs
\* row stays exactly as it was inserted until the delete of purge() removes
\* it, and no committed settings row is ever deleted.
C25_RowsArePermanent ==
    [][/\ \A i \in 1..Len(logs) :
              \/ logs[i] \in Range(logs')
              \/ /\ purgePc = "delete" /\ purgePc' = "idle"
                 /\ \A j \in 1..Len(logs') : logs'[j].id # logs[i].id
       /\ \A i \in 1..Len(settings) :
              \E j \in 1..Len(settings') :
                  /\ settings'[j].id = settings[i].id
                  /\ settings'[j].key = settings[i].key
                  /\ settings'[j].created_on = settings[i].created_on]_vars

\* C25 witness: purge() has deleted the first logs row, a later one is kept
\* and a settings row written by sync() or a flush is in the store
C25_Witness ==
    /\ purgePc = "idle"
    /\ logs # <<>>
    /\ logs[1].id > 1
    /\ settings # <<>>

\* C26: the write of Config.sync() does not go through the buffer. No step of
\* sync() touches a pending queue or is a step of a flush, and the commit that
\* ends a sync() which found a change leaves the file's digest as the value of
\* the config-sha256 row in the store.
C26_SyncBypassesBuffer ==
    [][/\ (SyncCalled \/ syncPc' # syncPc) =>
              /\ inserts' = inserts
              /\ updates' = updates
              /\ pc' = pc
       /\ (SyncCalled /\ load(syncFile') # None
              /\ ~SameDigest(settings, load(syncFile'))) =>
              syncPc' = "commit"
       /\ (syncPc = "commit" /\ syncPc' = "idle") =>
              /\ HasKey(settings', ConfigKey)
              /\ RowOf(settings', ConfigKey).value = Hex(syncFile.bytes)]_vars

\* C26 witness: sync() has returned with the digest in the store while no
\* flush has begun and an update enqueued earlier is still pending
C26_Witness ==
    /\ syncPc = "idle"
    /\ syncRet # None
    /\ HasKey(settings, ConfigKey)
    /\ RowOf(settings, ConfigKey).value = Hex(syncFile.bytes)
    /\ \A f \in Flushers : pc[f] = "init"
    /\ updates # <<>>
    /\ logs = <<>>

\* C27: in a flush cycle the WAL checkpoint is issued at most once and only
\* after the cycle's commit has succeeded: flushB comes to the checkpoint
\* from a successful commit only, with a snapshot that is not empty, and
\* leaves it for the except or the finally clause, from where it does not
\* come back. When the checkpoint fails the rows the cycle committed stay.
C27_CheckpointAfterCommit ==
    /\ [][\A f \in Flushers :
            /\ (pc[f] # "ckpt" /\ pc'[f] = "ckpt") => Commits(f)
            /\ (pc[f] = "ckpt" /\ pc'[f] # "ckpt") =>
                  /\ pc'[f] \in {"except", "finally"}
                  /\ logs' = logs /\ settings' = settings
            /\ (pc[f] = "except" /\ pc'[f] # "except") =>
                  /\ pc'[f] = "finally"
                  /\ logs' = logs /\ settings' = settings
            /\ (pc[f] = "finally" /\ pc'[f] # "finally") =>
                  /\ pc'[f] = "ret"
                  /\ logs' = logs /\ settings' = settings]_vars
    /\ [](\A f \in Flushers :
            /\ pc[f] = "ckpt" => (snapI[f] # <<>> \/ snapU[f] # <<>>)
            /\ (pc[f] \in {"except", "finally", "ret"} /\ outcome[f] = "ckptfail") =>
                  /\ \A i \in 1..Len(snapI[f]) : snapI[f][i].uid \in Uids(logs)
                  /\ \A k \in KeysOf(snapU[f]) : HasKey(settings, k))

\* C27 witness: a flush has committed a record and an update, its checkpoint
\* has failed, and it has returned with the rows in the store
C27_Witness ==
    \E f \in Flushers :
        /\ pc[f] = "ret"
        /\ outcome[f] = "ckptfail"
        /\ snapI[f] # <<>>
        /\ snapU[f] # <<>>
        /\ \A i \in 1..Len(snapI[f]) : snapI[f][i].uid \in Uids(logs)
        /\ \A k \in KeysOf(snapU[f]) : HasKey(settings, k)

\* C28: once SQLiteHandler.close() has disposed the engine, listen() has
\* stopped and no flush begins a transaction: no flushB goes from its
\* snapshot to its session.
C28_NoFlushAfterDispose ==
    /\ [](pc["handler"] = "done" => pc["listen"] \in {"init", "done"})
    /\ [][pc["handler"] = "done" =>
              \A f \in Flushers : ~(pc[f] = "snap" /\ pc'[f] = "add")]_vars

\* the steps run() is asked for when it is not asked to reset, generate or list
Asked(a) ==
    IF ~a.download /\ ~a.check THEN <<"download", "check">>
    ELSE (IF a.download THEN <<"download">> ELSE <<>>) \o
         (IF a.check THEN <<"check">> ELSE <<>>)

\* C29: FileSync.run does one thing: reset if asked, else generate if asked,
\* else list if asked, and then neither download nor check runs and nothing
\* is reported; otherwise it runs download and check if neither was asked
\* for, download first, or the one that was asked for, and logs
\* "nothing found!" exactly when no configured host is the selected target
\* (every host, when none is selected).
C29_RunDispatch ==
    fs.pc = "done" =>
        LET a == fs.args
            mode == IF a.reset THEN "reset"
                    ELSE IF a.generate THEN "generate"
                    ELSE IF a.list THEN "list" ELSE "sync"
            matched == \E i \in 1..Len(fs.targets) :
                          a.target = "" \/ a.target = fs.targets[i]
        IN  /\ mode # "sync" => (fs.ran = <<mode>> /\ ~fs.said)
            /\ mode = "sync" => (fs.ran = Asked(a) /\ (fs.said <=> ~matched))

\* C29 witness: run() was called with no flag and a target that is not
\* configured, ran download and then check, and logged "nothing found!"
C29_Witness ==
    /\ fs.pc = "done"
    /\ ~fs.args.download /\ ~fs.args.check
    /\ fs.ran = <<"download", "check">>
    /\ fs.args.target = "h3"
    /\ fs.targets # <<>>
    /\ fs.said
====
